---- MODULE Spec2Model ----
(***************************************************************************)
(* Model of dumbconf/_roundtrip.py: the formatting policy that turns a     *)
(* native value into a token stream, the path-addressed edit algebra over  *)
(* a parsed document (get / set / delete / set_key), and the proxy views   *)
(* that share one root cell.                                               *)
(*                                                                         *)
(* Native values are tagged records:                                       *)
(*   [t |-> "str", s |-> "a"]   [t |-> "int", n |-> 1]   [t |-> "null"]    *)
(*   [t |-> "bool", b |-> TRUE]                                            *)
(*   [t |-> "list", items |-> <<v1, ...>>]                                 *)
(*   [t |-> "dict", items |-> <<[k |-> key, v |-> value], ...>>]           *)
(* Tokens are records [type, src]; primitive tokens also carry val and are *)
(* the primitive nodes of the tree.                                        *)
(***************************************************************************)
EXTENDS Integers, Sequences, FiniteSets, TLC

VARIABLES cells, views, last, latest, dIn, dOut

vars == <<cells, views, last, latest, dIn, dOut>>

(***************************************************************************)
(* Bounds                                                                  *)
(***************************************************************************)
MaxViews == 2
MaxOps == 2
MaxIndent == 1

(***************************************************************************)
(* Native values                                                           *)
(***************************************************************************)
S(s) == [t |-> "str", s |-> s]
I(n) == [t |-> "int", n |-> n]
NullV == [t |-> "null"]
B(b) == [t |-> "bool", b |-> b]
L(items) == [t |-> "list", items |-> items]
D(items) == [t |-> "dict", items |-> items]
KV(k, v) == [k |-> k, v |-> v]

\* isinstance(v, int): a bool is an int in Python
IsInt(v) == v.t \in {"int", "bool"}

\* the integer that an int or a bool stands for: True is 1 and False is 0
IntOf(v) == IF v.t = "bool" THEN (IF v.b THEN 1 ELSE 0) ELSE v.n

\* Python's a == b on native values
PyEq(a, b) == IF IsInt(a) /\ IsInt(b) THEN IntOf(a) = IntOf(b) ELSE a = b

\* the outcome of a call that can raise: err is "none" and val the result,
\* or err names the exception raised
Ok(v) == [err |-> "none", val |-> v]
Err(e) == [err |-> e, val |-> NullV]

(***************************************************************************)
(* Tokens                                                                  *)
(***************************************************************************)
Tok(type, src) == [type |-> type, src |-> src]
Comma == Tok("Comma", ",")
Space == Tok("Space", " ")
NL == Tok("NL", "\n")
Colon == Tok("Colon", ":")
EOF == Tok("EOF", "")
MapStart == Tok("MapStart", "{")
MapEnd == Tok("MapEnd", "}")
ListStart == Tok("ListStart", "[")
ListEnd == Tok("ListEnd", "]")

RECURSIVE Repeat(_, _)
Repeat(s, n) == IF n <= 0 THEN "" ELSE s \o Repeat(s, n - 1)

Indent(n) == Tok("Indent", Repeat("    ", n))

PRIMITIVE == {"Bool", "BareWordKey", "Float", "Int", "Null", "String"}

\* the character classes of the bare-word grammar of the tokenizer:
\* [a-zA-Z_] for the first character and [a-zA-Z0-9_-] for the others
WordStart ==
    {"a", "b", "c", "d", "e", "f", "g", "h", "i", "j", "k", "l", "m",
     "n", "o", "p", "q", "r", "s", "t", "u", "v", "w", "x", "y", "z",
     "A", "B", "C", "D", "E", "F", "G", "H", "I", "J", "K", "L", "M",
     "N", "O", "P", "Q", "R", "S", "T", "U", "V", "W", "X", "Y", "Z", "_"}
WordChar ==
    WordStart \cup {"0", "1", "2", "3", "4", "5", "6", "7", "8", "9", "-"}

\* BARE_WORD_RE matches all of the string s
BARE_WORD_RE(s) ==
    /\ Len(s) > 0
    /\ SubSeq(s, 1, 1) \in WordStart
    /\ \A k \in 2..Len(s) : SubSeq(s, k, k) \in WordChar

\* BARE_WORD_RE.pattern + '$' under match(): the bare word runs to the end
\* of the string or to a newline that ends the string
BARE_WORD_FULL_MATCH_RE(s) ==
    \/ BARE_WORD_RE(s)
    \/ /\ Len(s) > 1
       /\ SubSeq(s, Len(s), Len(s)) = "\n"
       /\ BARE_WORD_RE(SubSeq(s, 1, Len(s) - 1))

\* the primitive codec
StringDump(s) == "\"" \o s \o "\""
IntDump(n) == ToString(n)
BoolDump(b) == IF b THEN "true" ELSE "false"
NullDump == "null"

(***************************************************************************)
(* Settings                                                                *)
(***************************************************************************)
Settings(indent, bare_keys, inline_small_containers) ==
    [indent |-> indent, bare_keys |-> bare_keys,
     inline_small_containers |-> inline_small_containers]

\* the property raises AssertionError below indent 0
indented(settings) ==
    IF settings.indent >= 0
    THEN [settings EXCEPT !.indent = settings.indent + 1]
    ELSE Err("AssertionError")

DEFAULT == Settings(-1, TRUE, TRUE)

(***************************************************************************)
(* The synthesizer: _to_tokens and the container renderers                 *)
(***************************************************************************)
ContainerSettings(ctype) ==
    IF ctype = "map" THEN [start |-> MapStart, end |-> MapEnd, ctype |-> "map"]
    ELSE [start |-> ListStart, end |-> ListEnd, ctype |-> "list"]

to_iter(val) == val.items

RECURSIVE _to_tokens(_, _, _, _)
RECURSIVE item_func(_, _, _)
RECURSIVE _inline_rest(_, _, _, _)
RECURSIVE _multiline_items(_, _, _, _)
RECURSIVE _top_level_map_tokens_from(_, _, _)

_map_item_tokens(kv, settings) ==
    _to_tokens(kv.k, settings, TRUE, FALSE)
        \o <<Colon, Space>>
        \o _to_tokens(kv.v, settings, FALSE, FALSE)

item_func(cs, item, settings) ==
    IF cs.ctype = "map" THEN _map_item_tokens(item, settings)
    ELSE _to_tokens(item, settings, FALSE, FALSE)

\* the loop of _inline over items[k..]
_inline_rest(items, k, settings, cs) ==
    IF k > Len(items) THEN <<>>
    ELSE <<Comma, Space>> \o item_func(cs, items[k], settings)
            \o _inline_rest(items, k + 1, settings, cs)

_inline(val, settings, cs) ==
    LET items == to_iter(val) IN
    <<cs.start>>
        \o (IF Len(items) > 0
            THEN item_func(cs, items[1], settings)
                    \o _inline_rest(items, 2, settings, cs)
            ELSE <<>>)
        \o <<cs.end>>

\* the loop of _multiline over items[k..]; its first pass raises what
\* settings.indented raises
_multiline_items(items, k, settings, cs) ==
    IF k > Len(items) THEN <<>>
    ELSE IF settings.indent < 0 THEN indented(settings)
    ELSE <<Indent(indented(settings).indent)>>
            \o item_func(cs, items[k], indented(settings))
            \o <<Comma, NL>>
            \o _multiline_items(items, k + 1, settings, cs)

\* mutant: the closing indent is emitted at indent 0 too
_multiline_always_closing_indent(val, settings, cs) ==
    <<cs.start, NL>>
        \o _multiline_items(to_iter(val), 1, settings, cs)
        \o (IF settings.indent >= 0 THEN <<Indent(settings.indent)>> ELSE <<>>)
        \o <<cs.end>>

\* the first pass of the loop raises what settings.indented raises
_multiline(val, settings, cs) ==
    IF settings.indent < 0 /\ to_iter(val) # <<>>
    THEN indented(settings)
    ELSE <<cs.start, NL>>
            \o _multiline_items(to_iter(val), 1, settings, cs)
            \o (IF settings.indent > 0 THEN <<Indent(settings.indent)>>
                ELSE <<>>)
            \o <<cs.end>>

\* mutant: a container at indent 0 is rendered inline as well
_container_inline_at_zero(val, settings, cs) ==
    IF \/ settings.indent <= 0
       \/ Len(val.items) = 0
       \/ (settings.inline_small_containers /\ Len(to_iter(val)) < 2)
    THEN _inline(val, settings, cs)
    ELSE _multiline(val, settings, cs)

_container(val, settings, cs) ==
    IF \/ settings.indent < 0
       \/ Len(val.items) = 0
       \/ (settings.inline_small_containers /\ Len(to_iter(val)) < 2)
    THEN _inline(val, settings, cs)
    ELSE _multiline(val, settings, cs)

_map_tokens(val, settings) == _container(val, settings, ContainerSettings("map"))
_list_tokens(val, settings) == _container(val, settings, ContainerSettings("list"))

_top_level_map_tokens_from(items, k, settings) ==
    IF k > Len(items) THEN <<>>
    ELSE _map_item_tokens(items[k], settings) \o <<NL>>
            \o _top_level_map_tokens_from(items, k + 1, settings)

_top_level_map_tokens(dct, settings) ==
    _top_level_map_tokens_from(dct.items, 1, settings)

_to_tokens(val, settings, key, top_level_map_arg) ==
    LET top_level_map == top_level_map_arg /\ settings.indent = 0 IN
    CASE val.t = "str" ->
            IF settings.bare_keys /\ key /\ BARE_WORD_FULL_MATCH_RE(val.s)
            THEN <<[type |-> "BareWordKey", val |-> val, src |-> val.s]>>
            ELSE <<[type |-> "String", val |-> val, src |-> StringDump(val.s)]>>
      [] val.t = "bool" ->
            <<[type |-> "Bool", val |-> val, src |-> BoolDump(val.b)]>>
      [] val.t = "null" ->
            <<[type |-> "Null", val |-> val, src |-> NullDump]>>
      [] val.t = "int" ->
            <<[type |-> "Int", val |-> val, src |-> IntDump(val.n)]>>
      [] val.t = "dict" /\ Len(val.items) > 0 /\ top_level_map ->
            _top_level_map_tokens(val, settings)
      [] val.t = "dict" /\ ~(Len(val.items) > 0 /\ top_level_map) ->
            _map_tokens(val, settings)
      [] val.t = "list" ->
            _list_tokens(val, settings)

RECURSIVE Concat(_)
Concat(tokens) ==
    IF tokens = <<>> THEN "" ELSE Head(tokens).src \o Concat(Tail(tokens))

(***************************************************************************)
(* The grammar layer: parse_from_tokens and unparse.                       *)
(* A container keeps its opening tokens in head and its closing tokens in  *)
(* tail; an item keeps the indentation before it in head and the comma and *)
(* the space or newline after it in tail.                                  *)
(***************************************************************************)
At(tokens, off) == IF off <= Len(tokens) THEN tokens[off] ELSE EOF

is_top_level_style(node) == node.head = <<>>

is_multiline(node) ==
    \/ is_top_level_style(node)
    \/ \E k \in 1..Len(node.head) : node.head[k].type = "NL"

TypeAt(tokens, off) == At(tokens, off).type

\* the trivia after an item: [Comma] [Space | NL]
_parse_tail(tokens, off) ==
    IF TypeAt(tokens, off) = "Comma"
    THEN IF TypeAt(tokens, off + 1) \in {"Space", "NL"}
         THEN [tail |-> <<tokens[off], tokens[off + 1]>>, off |-> off + 2]
         ELSE [tail |-> <<tokens[off]>>, off |-> off + 1]
    ELSE IF TypeAt(tokens, off) \in {"Space", "NL"}
         THEN [tail |-> <<tokens[off]>>, off |-> off + 1]
         ELSE [tail |-> <<>>, off |-> off]

\* the trivia between a key and its value: Colon [Space]
_parse_inner(tokens, off) ==
    IF TypeAt(tokens, off + 1) = "Space"
    THEN [inner |-> <<tokens[off], tokens[off + 1]>>, off |-> off + 2]
    ELSE [inner |-> <<tokens[off]>>, off |-> off + 1]

RECURSIVE _parse_val(_, _)
RECURSIVE _parse_items(_, _, _, _, _)

\* the item is complete: t is its trailing trivia
_parse_item_end(tokens, item, t, ntype, endtype, acc) ==
    _parse_items(tokens, t.off, ntype, endtype,
                 Append(acc, [item EXCEPT !.tail = t.tail]))

\* v is the parsed value of a list item
_parse_list_item(tokens, head, v, ntype, endtype, acc) ==
    _parse_item_end(tokens, [head |-> head, val |-> v.val, tail |-> <<>>],
                    _parse_tail(tokens, v.off), ntype, endtype, acc)

\* v is the parsed value of a map item
_parse_map_item_val(tokens, head, key, inner, v, ntype, endtype, acc) ==
    _parse_item_end(tokens,
                    [head |-> head, key |-> key, inner |-> inner,
                     val |-> v.val, tail |-> <<>>],
                    _parse_tail(tokens, v.off), ntype, endtype, acc)

\* inn is the parsed trivia between the key and the value of a map item
_parse_map_item(tokens, head, key, inn, ntype, endtype, acc) ==
    _parse_map_item_val(tokens, head, key, inn.inner,
                        _parse_val(tokens, inn.off), ntype, endtype, acc)

\* the items from off on, off being past the indentation head
_parse_item(tokens, off, head, ntype, endtype, acc) ==
    IF TypeAt(tokens, off) = endtype
    THEN [items |-> acc, tail |-> head \o <<At(tokens, off)>>, off |-> off + 1]
    ELSE IF ntype = "Map"
    THEN _parse_map_item(tokens, head, tokens[off],
                         _parse_inner(tokens, off + 1), ntype, endtype, acc)
    ELSE _parse_list_item(tokens, head, _parse_val(tokens, off),
                          ntype, endtype, acc)

_parse_items(tokens, off, ntype, endtype, acc) ==
    _parse_item(tokens,
                IF TypeAt(tokens, off) = "Indent" THEN off + 1 ELSE off,
                IF TypeAt(tokens, off) = "Indent" THEN <<tokens[off]>> ELSE <<>>,
                ntype, endtype, acc)

\* r is the parsed items and closing tokens of a container
_parse_node(ntype, head, r) ==
    [val |-> [type |-> ntype, head |-> head, items |-> r.items,
              tail |-> r.tail],
     off |-> r.off]

_parse_container(tokens, off, ntype, endtype, head) ==
    _parse_node(ntype, head,
                _parse_items(tokens, off + Len(head), ntype, endtype, <<>>))

_parse_val(tokens, off) ==
    IF TypeAt(tokens, off) \in PRIMITIVE
    THEN [val |-> tokens[off], off |-> off + 1]
    ELSE _parse_container(
            tokens, off,
            IF TypeAt(tokens, off) = "MapStart" THEN "Map" ELSE "List",
            IF TypeAt(tokens, off) = "MapStart" THEN "MapEnd" ELSE "ListEnd",
            IF TypeAt(tokens, off + 1) = "NL"
            THEN <<tokens[off], tokens[off + 1]>> ELSE <<tokens[off]>>)

\* r is the parsed items of a top-level-style map, up to the end of input
_parse_top_level_map(r) ==
    [head |-> <<>>,
     val |-> [type |-> "Map", head |-> <<>>, items |-> r.items, tail |-> <<>>],
     tail |-> r.tail]

\* v is the parsed root value
_parse_doc(tokens, v) ==
    [head |-> <<>>, val |-> v.val, tail |-> SubSeq(tokens, v.off, Len(tokens))]

parse_from_tokens(tokens) ==
    IF TypeAt(tokens, 1) \in PRIMITIVE /\ TypeAt(tokens, 2) = "Colon"
    THEN _parse_top_level_map(_parse_items(tokens, 1, "Map", "EOF", <<>>))
    ELSE _parse_doc(tokens, _parse_val(tokens, 1))

RECURSIVE _unparse_node(_)
RECURSIVE _unparse_items(_, _, _)

_unparse_items(ntype, items, k) ==
    IF k > Len(items) THEN ""
    ELSE LET it == items[k] IN
         Concat(it.head)
            \o (IF ntype = "Map"
                THEN _unparse_node(it.key) \o Concat(it.inner) ELSE "")
            \o _unparse_node(it.val) \o Concat(it.tail)
            \o _unparse_items(ntype, items, k + 1)

_unparse_node(node) ==
    IF node.type \in PRIMITIVE THEN node.src
    ELSE Concat(node.head) \o _unparse_items(node.type, node.items, 1)
            \o Concat(node.tail)

unparse(doc) == Concat(doc.head) \o _unparse_node(doc.val) \o Concat(doc.tail)

_to_ast(val, settings, top_level_map) ==
    parse_from_tokens(_to_tokens(val, settings, FALSE, top_level_map) \o <<EOF>>).val

(***************************************************************************)
(* Native-value projection                                                 *)
(***************************************************************************)
RECURSIVE OrderedDict(_, _)
\* collections.OrderedDict(pairs): of pairs with equal keys the first gives
\* the position and the key, the last the value
OrderedDict(pairs, acc) ==
    IF pairs = <<>> THEN acc
    ELSE LET p == Head(pairs)
             hit == {k \in 1..Len(acc) : PyEq(acc[k].k, p.k)}
         IN OrderedDict(Tail(pairs),
                IF hit = {} THEN Append(acc, p)
                ELSE [k \in 1..Len(acc) |->
                        IF k \in hit THEN KV(acc[k].k, p.v) ELSE acc[k]])

RECURSIVE _python_value(_)
_python_value(ast_obj) ==
    IF ast_obj.type \in PRIMITIVE THEN ast_obj.val
    ELSE IF ast_obj.type = "List"
    THEN L([k \in 1..Len(ast_obj.items) |-> _python_value(ast_obj.items[k].val)])
    ELSE D(OrderedDict(
            [k \in 1..Len(ast_obj.items) |->
                KV(_python_value(ast_obj.items[k].key),
                   _python_value(ast_obj.items[k].val))], <<>>))

(***************************************************************************)
(* The edit algebra.  A function that can raise returns Ok or Err:         *)
(*   AssertionError the assert of Settings.indented                        *)
(*   AttributeError dumps_roundtrip of a view without _ast_obj             *)
(*   KeyNotFound    AssertionError('TODO: KeyError(key)')                  *)
(*   NotIndexable   AssertionError('...: not indexable')                   *)
(*   IndexError     sequence index out of range                            *)
(*   BadSubscript   TypeError: sequence indices must be integers           *)
(*   CannotDeleteLastTopLevelItem, NotAMap, InvalidKeyType, EmptyPath      *)
(*                  the four TypeErrors raised by the module itself        *)
(***************************************************************************)
\* Python's seq[i]: the 1-based position that i selects, or the exception
Subscript(seq, i) ==
    IF ~IsInt(i) THEN Err("BadSubscript")
    ELSE IF 0 <= IntOf(i) /\ IntOf(i) < Len(seq) THEN Ok(IntOf(i) + 1)
    ELSE IF IntOf(i) < 0 /\ -IntOf(i) <= Len(seq)
    THEN Ok(Len(seq) + IntOf(i) + 1)
    ELSE Err("IndexError")

Min(set) == CHOOSE m \in set : \A o \in set : m <= o

\* the positions of the items of a Map whose key equals key
Hits(val, key) ==
    {k \in 1..Len(val.items) : PyEq(val.items[k].key.val, key)}

\* mutant: an absent key falls back to the first item
_key_index_default_first(val, key) ==
    IF val.type = "Map"
    THEN IF Hits(val, key) # {} THEN Ok(I(Min(Hits(val, key)) - 1))
         ELSE Ok(I(0))
    ELSE IF val.type = "List" THEN Ok(key)
    ELSE Err("NotIndexable")

_key_index(val, key) ==
    IF val.type = "Map"
    THEN IF Hits(val, key) # {} THEN Ok(I(Min(Hits(val, key)) - 1))
         ELSE Err("KeyNotFound")
    ELSE IF val.type = "List" THEN Ok(key)
    ELSE Err("NotIndexable")

RECURSIVE _get(_, _)

\* p is the outcome of obj.val.items[i]
_get_target(obj, ch, p) ==
    IF p.err # "none" THEN p
    ELSE IF Tail(ch) = <<>> THEN Ok(obj.val.items[p.val])
    ELSE _get(obj.val.items[p.val], Tail(ch))

\* i is the outcome of _key_index(obj.val, key)
_get_at(obj, ch, i) ==
    IF i.err # "none" THEN i
    ELSE _get_target(obj, ch, Subscript(obj.val.items, i.val))

_get(obj, ch) ==
    IF ch = <<>> THEN Ok(obj)
    ELSE _get_at(obj, ch, _key_index(obj.val, Head(ch)))

_replace_val(obj, new_value) ==
    [obj EXCEPT !.val = _to_ast(new_value, DEFAULT, FALSE)]

\* p is the outcome of new_items[i]
_set_item(obj, p, val) ==
    IF p.err # "none" THEN p
    ELSE Ok([obj.val.items EXCEPT ![p.val] = _replace_val(@, val)])

\* mutant: the replaced item loses its trailing trivia
_set_cb_drops_tail(obj, i, val) ==
    LET p == Subscript(obj.val.items, i)
    IN IF p.err # "none" THEN p
       ELSE Ok([obj.val.items EXCEPT
                    ![p.val] = [_replace_val(@, val) EXCEPT !.tail = <<>>]])

_set_cb(obj, i, val) == _set_item(obj, Subscript(obj.val.items, i), val)

RemoveAt(seq, p) == SubSeq(seq, 1, p - 1) \o SubSeq(seq, p + 1, Len(seq))

\* tok.src.endswith('\n'): NL is the only token of the model whose text
\* ends in a newline
EndsWithNL(tok) == tok.type = "NL"

\* q is the outcome of new_items[i]
_delete_move_head(new_items, q, head) ==
    IF q.err # "none" THEN q
    ELSE Ok([new_items EXCEPT ![q.val].head = head])

\* the trivia fix-up of _delete_cb, once the top-level guard has passed:
\* items are the parent's items, p the position of orig_item among them and
\* new_items the items without it
_delete_fixup(items, multiline, i, p, orig_item, new_items) ==
    IF ~multiline /\ Len(items) = IntOf(i) + 1
    THEN IF new_items = <<>> THEN Err("IndexError")
         ELSE Ok([new_items EXCEPT ![Len(new_items)].tail = <<>>])
    ELSE IF multiline /\ IntOf(i) - 1 >= 0 /\ orig_item.head = <<>>
            /\ orig_item.tail = <<>>
    THEN Err("IndexError")
    ELSE IF multiline /\ IntOf(i) - 1 >= 0 /\ orig_item.head = <<>>
            /\ EndsWithNL(orig_item.tail[Len(orig_item.tail)])
    THEN Ok([new_items EXCEPT ![IntOf(i)].tail = orig_item.tail])
    ELSE IF multiline /\ IntOf(i) + 1 < Len(items)
            /\ orig_item.head # <<>> /\ orig_item.tail = <<>>
    THEN Err("IndexError")
    ELSE IF multiline /\ IntOf(i) + 1 < Len(items)
            /\ orig_item.head # <<>>
            /\ ~EndsWithNL(orig_item.tail[Len(orig_item.tail)])
    THEN _delete_move_head(new_items, Subscript(new_items, i), orig_item.head)
    ELSE Ok(new_items)

\* p is the outcome of obj.val.items[i]
_delete_item(obj, i, p) ==
    IF p.err # "none" THEN p
    ELSE IF is_top_level_style(obj.val)
            /\ RemoveAt(obj.val.items, p.val) = <<>>
    THEN Err("CannotDeleteLastTopLevelItem")
    ELSE _delete_fixup(obj.val.items, is_multiline(obj.val), i, p.val,
                       obj.val.items[p.val], RemoveAt(obj.val.items, p.val))

\* mutant: the top-level guard is missing
_delete_cb_unguarded(obj, i) ==
    LET p == Subscript(obj.val.items, i)
    IN IF p.err # "none" THEN p
       ELSE _delete_fixup(obj.val.items, is_multiline(obj.val), i, p.val,
                          obj.val.items[p.val], RemoveAt(obj.val.items, p.val))

_delete_cb(obj, i) == _delete_item(obj, i, Subscript(obj.val.items, i))

\* p is the outcome of items[i]
_set_key_put(obj, p, key) ==
    IF p.err # "none" THEN p
    ELSE Ok([obj.val.items EXCEPT ![p.val].key = key])

\* key is the parsed new key
_set_key_item(obj, i, key) ==
    IF key.type \notin PRIMITIVE THEN Err("InvalidKeyType")
    ELSE _set_key_put(obj, Subscript(obj.val.items, i), key)

_set_key_cb(obj, i, new_value) ==
    IF obj.val.type # "Map" THEN Err("NotAMap")
    ELSE _set_key_item(obj, i, _to_ast(new_value, DEFAULT, FALSE))

\* the call items_cb(obj, i, *args) of _modify_items
items_cb(cb, obj, i, arg) ==
    CASE cb = "_set_cb" -> _set_cb(obj, i, arg)
      [] cb = "_delete_cb" -> _delete_cb(obj, i)
      [] cb = "_set_key_cb" -> _set_key_cb(obj, i, arg)

RECURSIVE _modify_items(_, _, _, _)

\* new_items is the outcome of the callback or of the edit of the child
_modify_replace(obj, new_items) ==
    IF new_items.err # "none" THEN new_items
    ELSE Ok([obj EXCEPT !.val.items = new_items.val])

\* sub is the outcome of _modify_items on the child at position p
_modify_child_put(obj, p, sub) ==
    IF sub.err # "none" THEN sub
    ELSE Ok([obj.val.items EXCEPT ![p] = sub.val])

\* p is the outcome of new_items[i]
_modify_child(obj, ch, cb, arg, p) ==
    IF p.err # "none" THEN p
    ELSE _modify_child_put(obj, p.val,
            _modify_items(obj.val.items[p.val], Tail(ch), cb, arg))

\* i is the outcome of _key_index(obj.val, key)
_modify_at(obj, ch, cb, arg, i) ==
    IF i.err # "none" THEN i
    ELSE _modify_replace(obj,
            IF Tail(ch) = <<>> THEN items_cb(cb, obj, i.val, arg)
            ELSE _modify_child(obj, ch, cb, arg,
                               Subscript(obj.val.items, i.val)))

_modify_items(obj, ch, cb, arg) ==
    _modify_at(obj, ch, cb, arg, _key_index(obj.val, Head(ch)))

_set(obj, ch, val) ==
    IF ch = <<>> THEN Ok(_replace_val(obj, val))
    ELSE _modify_items(obj, ch, "_set_cb", val)

_delete(obj, ch) == _modify_items(obj, ch, "_delete_cb", NullV)

_set_key(obj, ch, new_value) ==
    _modify_items(obj, ch, "_set_key_cb", new_value)

(***************************************************************************)
(* The document proxy.  cells is the heap of root cells (AstProxy._ast_obj)*)
(* and a view is [cell, chain]: the proxy it refers to and its path.       *)
(***************************************************************************)
root(cs, view) == cs[view.cell]

root_setter(cs, view, val) == [cs EXCEPT ![view.cell] = val]

chain(view, args) == view.chain \o args

AstProxyChain(ast_proxy, ch) == [cell |-> ast_proxy, chain |-> ch]

\* AstProxy(ast_obj): a fresh cell holding ast_obj and the view () on it
AstProxy(ast_obj) == [cells |-> <<ast_obj>>, view |-> AstProxyChain(1, <<>>)]

\* a write returns the heap after it and the exception it raised, if any
Assign(cs, view, res) ==
    [err |-> res.err,
     cells |-> IF res.err = "none" THEN root_setter(cs, view, res.val) ELSE cs]

__setitem__(cs, view, key, primitive) ==
    Assign(cs, view, _set(root(cs, view), chain(view, <<key>>), primitive))

__delitem__(cs, view, key) ==
    Assign(cs, view, _delete(root(cs, view), chain(view, <<key>>)))

\* mutant: the child view gets a copy of the root in a cell of its own
__getitem__copies_root(cs, view, key) ==
    [cells |-> Append(cs, cs[view.cell]),
     view |-> AstProxyChain(Len(cs) + 1, chain(view, <<key>>))]

__getitem__(cs, view, key) ==
    [cells |-> cs, view |-> AstProxyChain(view.cell, chain(view, <<key>>))]

replace_key(cs, view, primitive) ==
    IF chain(view, <<>>) = <<>> THEN [err |-> "EmptyPath", cells |-> cs]
    ELSE Assign(cs, view, _set_key(root(cs, view), chain(view, <<>>), primitive))

replace_value(cs, view, primitive) ==
    Assign(cs, view, _set(root(cs, view), chain(view, <<>>), primitive))

\* r is the outcome of _get(self.root, self.chain())
_project(r) == IF r.err # "none" THEN r ELSE Ok(_python_value(r.val.val))

python_value(cs, view) == _project(_get(root(cs, view), chain(view, <<>>)))

\* ast_proxy._ast_obj: only the AstProxy, the view with the empty chain, has
\* the attribute; on a child AstProxyChain the read raises AttributeError
dumps_roundtrip(cs, ast_proxy) ==
    IF ast_proxy.chain = <<>> THEN Ok(unparse(cs[ast_proxy.cell]))
    ELSE Err("AttributeError")

dumps(v, indented_arg, bare_keys, top_level_map, inline_small_containers) ==
    LET settings == Settings(IF indented_arg THEN 0 ELSE -1, bare_keys,
                             inline_small_containers)
    IN unparse(parse_from_tokens(
            _to_tokens(v, settings, FALSE, top_level_map) \o <<EOF>>))

(***************************************************************************)
(* Inputs                                                                  *)
(***************************************************************************)
IntT(n) == [type |-> "Int", val |-> I(n), src |-> IntDump(n)]
KeyT(s) == [type |-> "BareWordKey", val |-> S(s), src |-> s]

\* the token streams of the documents a session starts from
DocTokens == {
    \* a: 1\nb: 2\n
    <<KeyT("a"), Colon, Space, IntT(1), NL,
      KeyT("b"), Colon, Space, IntT(2), NL, EOF>>,
    \* a: {a: 1, b: 2}\n
    <<KeyT("a"), Colon, Space, MapStart, KeyT("a"), Colon, Space, IntT(1),
      Comma, Space, KeyT("b"), Colon, Space, IntT(2), MapEnd, NL, EOF>>,
    \* a: [1]\n
    <<KeyT("a"), Colon, Space, ListStart, IntT(1), ListEnd, NL, EOF>>,
    \* [\n    1, 2,\n    3,\n]
    <<ListStart, NL, Indent(1), IntT(1), Comma, Space, IntT(2), Comma, NL,
      Indent(1), IntT(3), Comma, NL, ListEnd, EOF>>,
    \* [\n    1,\n    2, 3, 4,\n]
    <<ListStart, NL, Indent(1), IntT(1), Comma, NL,
      Indent(1), IntT(2), Comma, Space, IntT(3), Comma, Space, IntT(4),
      Comma, NL, ListEnd, EOF>>
}

\* the keys and indices of the writes; the bool True is the index 1
Keys == {S("a"), S("b"), I(0), B(TRUE), I(-1), I(-3)}
ViewKeys == {S("a"), S("b"), I(0)}
Values == {I(9), S("a"), D(<<>>)}
SetValues == {I(9), L(<<I(1), I(2)>>)}

NoView == AstProxyChain(0, <<>>)

(***************************************************************************)
(* The editing session                                                     *)
(***************************************************************************)
Record(op, view, ch, arg, err) ==
    [op |-> op, view |-> view, chain |-> ch, arg |-> arg, err |-> err,
     pre |-> root(cells, view), n |-> last.n + 1]

\* the state after loads_roundtrip: proxy is the AstProxy it returns
Loaded(proxy) ==
    /\ cells = proxy.cells
    /\ views = {proxy.view}
    /\ latest = proxy.cells[1]
    /\ last = [op |-> "loads_roundtrip", view |-> proxy.view,
               chain |-> <<>>, arg |-> NullV, err |-> "none",
               pre |-> proxy.cells[1], n |-> 0]
    /\ dIn = [kind |-> "none"]
    /\ dOut = [done |-> FALSE]

Init == \E tokens \in DocTokens : Loaded(AstProxy(parse_from_tokens(tokens)))

Write(op, view, ch, arg, res) ==
    /\ last.n < MaxOps
    /\ cells' = res.cells
    /\ latest' = IF res.err = "none" THEN root(res.cells, view) ELSE latest
    /\ last' = Record(op, view, ch, arg, res.err)
    /\ UNCHANGED <<views, dIn, dOut>>

GetItem ==
    \E view \in views, key \in ViewKeys :
        /\ Cardinality(views) < MaxViews
        /\ cells' = __getitem__(cells, view, key).cells
        /\ views' = views \cup {__getitem__(cells, view, key).view}
        /\ UNCHANGED <<last, latest, dIn, dOut>>

SetItem ==
    \E view \in views, key \in Keys, val \in SetValues :
        Write("__setitem__", view, chain(view, <<key>>), val,
              __setitem__(cells, view, key, val))

DelItem ==
    \E view \in views, key \in Keys :
        Write("__delitem__", view, chain(view, <<key>>), NullV,
              __delitem__(cells, view, key))

ReplaceKey ==
    \E view \in views, val \in Values :
        Write("replace_key", view, chain(view, <<>>), val,
              replace_key(cells, view, val))

ReplaceValue ==
    \E view \in views, val \in Values :
        Write("replace_value", view, chain(view, <<>>), val,
              replace_value(cells, view, val))

Next ==
    \/ GetItem
    \/ SetItem
    \/ DelItem
    \/ ReplaceKey
    \/ ReplaceValue

Spec == Init /\ [][Next]_vars

(***************************************************************************)
(* One-shot serialization: the inputs are drawn by the initial state and   *)
(* the actions apply dumps and _to_tokens to them.                         *)
(***************************************************************************)
XList == D(<<KV(S("x"), L(<<I(1), I(2), I(3)>>))>>)

DumpValues == {
    I(1), S("a"), S("a b"), NullV, B(TRUE),
    L(<<>>), L(<<I(1)>>), L(<<I(1), I(2), I(3)>>), L(<<L(<<I(1), I(2)>>)>>),
    D(<<>>), XList, D(<<KV(S("a b"), I(1))>>),
    D(<<KV(S("a"), I(1)), KV(S("b"), D(<<KV(S("c"), I(2)), KV(I(3), NullV)>>))>>)
}

DumpInputs ==
    [kind : {"dumps"}, v : DumpValues, indented : BOOLEAN, bare_keys : BOOLEAN,
     top_level_map : BOOLEAN, inline_small_containers : BOOLEAN]

TokenInputs ==
    [kind : {"_to_tokens"}, v : DumpValues,
     settings : [indent : -1..MaxIndent, bare_keys : BOOLEAN,
                 inline_small_containers : BOOLEAN],
     key : BOOLEAN, top_level_map : BOOLEAN]

InitDumps ==
    /\ cells = <<>>
    /\ views = {}
    /\ latest = NullV
    /\ last = [op |-> "none", view |-> NoView, chain |-> <<>>, arg |-> NullV,
               err |-> "none", pre |-> NullV, n |-> 0]
    /\ dIn \in DumpInputs \cup TokenInputs
    /\ dOut = [done |-> FALSE]

Dumps ==
    /\ dIn.kind = "dumps"
    /\ ~dOut.done
    /\ dOut' = [done |-> TRUE,
                text |-> dumps(dIn.v, dIn.indented, dIn.bare_keys,
                               dIn.top_level_map, dIn.inline_small_containers)]
    /\ UNCHANGED <<cells, views, last, latest, dIn>>

ToTokens ==
    /\ dIn.kind = "_to_tokens"
    /\ ~dOut.done
    /\ dOut' = [done |-> TRUE,
                tokens |-> _to_tokens(dIn.v, dIn.settings, dIn.key,
                                      dIn.top_level_map)]
    /\ UNCHANGED <<cells, views, last, latest, dIn>>

NextDumps ==
    \/ Dumps
    \/ ToTokens

SpecDumps == InitDumps /\ [][NextDumps]_vars

(***************************************************************************)
(* Vocabulary of the properties                                            *)
(***************************************************************************)
Root == cells[1]

Writes == {"__setitem__", "__delitem__", "replace_key", "replace_value"}

Front(ch) == SubSeq(ch, 1, Len(ch) - 1)

Resolves(doc, ch) == _get(doc, ch).err = "none"

\* the container that holds the item at ch
ParentNode(doc, ch) == _get(doc, Front(ch)).val.val

\* the position in its parent of the item at ch
Position(doc, ch) ==
    LET par == ParentNode(doc, ch)
    IN Subscript(par.items, _key_index(par, ch[Len(ch)]).val).val

RECURSIVE Positions(_, _)
Positions(doc, ch) ==
    IF ch = <<>> THEN <<>>
    ELSE Positions(doc, Front(ch)) \o <<Position(doc, ch)>>

RECURSIVE ItemAt(_, _)
ItemAt(obj, ps) ==
    IF ps = <<>> THEN obj ELSE ItemAt(obj.val.items[Head(ps)], Tail(ps))

\* obj with one field of the item at positions ps erased
RECURSIVE Erase(_, _, _)
Erase(obj, ps, field) ==
    IF Len(ps) = 1
    THEN IF field = "val"
         THEN [obj EXCEPT !.val.items[ps[1]].val = NullV]
         ELSE [obj EXCEPT !.val.items[ps[1]].key = NullV]
    ELSE [obj EXCEPT !.val.items[ps[1]] = Erase(@, Tail(ps), field)]

RECURSIVE Nodes(_)
Nodes(node) ==
    IF node.type \in PRIMITIVE THEN {}
    ELSE {node} \cup
         UNION {Nodes(node.items[k].val) : k \in 1..Len(node.items)}

\* the items without their trivia
Payload(items) ==
    [k \in 1..Len(items) |-> [items[k] EXCEPT !.head = <<>>, !.tail = <<>>]]

SoleTopLevelTarget(doc, ch) ==
    /\ Resolves(doc, ch)
    /\ is_top_level_style(ParentNode(doc, ch))
    /\ Len(ParentNode(doc, ch).items) = 1

IsPrimitiveValue(v) == v.t \in {"str", "int", "null", "bool"}

(***************************************************************************)
(* C1: no top-level-style map is ever empty; a delete of the sole entry of *)
(* a top-level-style map fails with CannotDeleteLastTopLevelItem and       *)
(* leaves the document as it was.                                          *)
(***************************************************************************)
C1_TopLevelGuard ==
    /\ \A node \in Nodes(Root.val) :
            is_top_level_style(node) => Len(node.items) > 0
    /\ (last.op = "__delitem__" /\ SoleTopLevelTarget(last.pre, last.chain))
            => (last.err = "CannotDeleteLastTopLevelItem" /\ Root = last.pre)

C1_Witness ==
    /\ last.op = "__delitem__"
    /\ SoleTopLevelTarget(last.pre, last.chain)
    /\ last.err = "CannotDeleteLastTopLevelItem"
    /\ last.n = 2

(***************************************************************************)
(* C2: edits are all-or-nothing: a write that fails leaves the shared root *)
(* identical to the root before it, and each listed misuse does fail.      *)
(***************************************************************************)
\* the misuses the claim lists, read off the document before the write
ListedFailure ==
    LET ch == last.chain
        doc == last.pre
    IN
    \/ last.op = "replace_key" /\ ch = <<>>
    \/ /\ ch # <<>>
       /\ Resolves(doc, Front(ch))
       /\ LET par == ParentNode(doc, ch)
              key == ch[Len(ch)]
          IN \/ par.type \in PRIMITIVE
             \/ /\ par.type = "Map"
                /\ \A k \in 1..Len(par.items) :
                        ~PyEq(par.items[k].key.val, key)
             \/ /\ par.type = "List"
                /\ IsInt(key)
                /\ (IntOf(key) >= Len(par.items)
                        \/ IntOf(key) < -Len(par.items))
             \/ last.op = "replace_key" /\ par.type = "List"
             \/ last.op = "replace_key" /\ ~IsPrimitiveValue(last.arg)
             \/ last.op = "__delitem__" /\ SoleTopLevelTarget(doc, ch)

C2_AllOrNothing ==
    last.op \in Writes =>
        /\ last.err # "none" => Root = last.pre
        /\ ListedFailure => last.err # "none"

C2_Witness ==
    /\ last.op = "__setitem__"
    /\ Len(last.chain) = 2
    /\ last.err = "KeyNotFound"
    /\ last.n = 2
    /\ Root = last.pre

(***************************************************************************)
(* C3: a delete at a path that resolves to an existing item (the sole      *)
(* entry of a top-level-style map excepted) completes, the parent has      *)
(* exactly one item fewer and the remaining items keep their order.        *)
(***************************************************************************)
C3_DeleteShrinksByOne ==
    (/\ last.op = "__delitem__"
     /\ Resolves(last.pre, last.chain)
     /\ ~SoleTopLevelTarget(last.pre, last.chain))
        => /\ last.err = "none"
           /\ LET old == ParentNode(last.pre, last.chain).items
                  new == ParentNode(Root, last.chain).items
              IN /\ Len(new) = Len(old) - 1
                 /\ Payload(new)
                        = Payload(RemoveAt(old, Position(last.pre, last.chain)))

(***************************************************************************)
(* C4: a set at a non-empty path that resolves changes nothing but the val *)
(* of the terminal item: its key, head and tail, and every other item of   *)
(* the tree, are as before.                                                *)
(***************************************************************************)
C4_SetPreservesSiblings ==
    (/\ last.op \in {"__setitem__", "replace_value"}
     /\ last.chain # <<>>
     /\ Resolves(last.pre, last.chain))
        => /\ last.err = "none"
           /\ LET ps == Positions(last.pre, last.chain)
              IN Erase(Root, ps, "val") = Erase(last.pre, ps, "val")

C4_Witness ==
    /\ last.op = "__setitem__"
    /\ Len(last.chain) = 2
    /\ last.err = "none"
    /\ Root # last.pre
    /\ LET ps == Positions(last.pre, last.chain)
       IN /\ ItemAt(Root, ps).tail # <<>>
          /\ _python_value(ItemAt(Root, ps).val) = last.arg

(***************************************************************************)
(* C5: replace_key on an item of a Map with a primitive new key changes    *)
(* only that item's key, and the value read at the path ending in the new  *)
(* key projects to what the value at the old path projected to.            *)
(***************************************************************************)
C5_RekeyPreservesValue ==
    (/\ last.op = "replace_key"
     /\ last.chain # <<>>
     /\ Resolves(last.pre, last.chain)
     /\ ParentNode(last.pre, last.chain).type = "Map"
     /\ IsPrimitiveValue(last.arg))
        => /\ last.err = "none"
           /\ LET ps == Positions(last.pre, last.chain)
              IN Erase(Root, ps, "key") = Erase(last.pre, ps, "key")
           /\ LET r == _get(Root, Front(last.chain) \o <<last.arg>>)
              IN /\ r.err = "none"
                 /\ _python_value(r.val.val)
                        = _python_value(_get(last.pre, last.chain).val.val)

(***************************************************************************)
(* C6: every Map of the document has item keys pairwise non-equal by val.  *)
(***************************************************************************)
C6_UniqueKeys ==
    \A node \in Nodes(Root.val) :
        node.type = "Map" =>
            \A j, k \in 1..Len(node.items) :
                j # k => ~PyEq(node.items[j].key.val, node.items[k].key.val)

(***************************************************************************)
(* C7: all views share one root cell: every view reads the root produced   *)
(* by the most recent successful write, python_value and dumps_roundtrip   *)
(* report that root, and indexing neither copies nor changes it.           *)
(***************************************************************************)
\* the view reads the root of the most recent successful write, and its
\* python_value is the projection of that root at the view's path
ReadsLatest(view) ==
    /\ root(cells, view) = latest
    /\ LET r == _get(latest, view.chain)
           got == python_value(cells, view)
       IN IF r.err # "none" THEN got.err = r.err
          ELSE got = Ok(_python_value(r.val.val))

\* C7 as claimed: python_value and dumps_roundtrip through EVERY view report
\* the root of the most recent successful write
C7_SharedRootEveryView ==
    /\ Len(cells) = 1
    /\ \A view \in views :
        /\ ReadsLatest(view)
        /\ dumps_roundtrip(cells, view) = Ok(unparse(latest))

\* C7 as amended: python_value through every view reports the root of the
\* most recent successful write; dumps_roundtrip reports it for the proxy
\* that loads_roundtrip returned and raises AttributeError for a child view
C7_SharedRoot ==
    /\ Len(cells) = 1
    /\ \A view \in views :
        /\ ReadsLatest(view)
        /\ dumps_roundtrip(cells, view) =
             IF view = AstProxyChain(1, <<>>) THEN Ok(unparse(latest))
             ELSE Err("AttributeError")

\* a write through a child view that the root proxy reads, with
\* dumps_roundtrip refused on the child view
C7_Witness ==
    /\ last.op \in Writes
    /\ last.err = "none"
    /\ last.view.chain # <<>>
    /\ Cardinality(views) = 2
    /\ Root # last.pre
    /\ python_value(cells, AstProxyChain(1, <<>>))
         = Ok(_python_value(latest.val))
    /\ _python_value(latest.val) # _python_value(last.pre.val)
    /\ \A view \in views : python_value(cells, view).err = "none"
    /\ dumps_roundtrip(cells, AstProxyChain(1, <<>>)) = Ok(unparse(Root))
    /\ unparse(Root) # unparse(last.pre)
    /\ dumps_roundtrip(cells, last.view).err = "AttributeError"

(***************************************************************************)
(* C8: dumps({"x": [1, 2, 3]}) with the default settings.  As claimed the  *)
(* text is "x: [1, 2, 3]\n"; the code renders the list one item per line.  *)
(***************************************************************************)
DefaultDumpOfXList ==
    /\ dOut.done
    /\ dIn.kind = "dumps"
    /\ dIn.v = XList
    /\ dIn.indented
    /\ dIn.bare_keys
    /\ dIn.top_level_map
    /\ dIn.inline_small_containers

\* C8 as claimed: the text is "x: [1, 2, 3]\n"
C8_DumpsInlineText == DefaultDumpOfXList => dOut.text = "x: [1, 2, 3]\n"

\* C8 as amended: the text is "x: [\n    1,\n    2,\n    3,\n]\n"
C8_DumpsMultilineText ==
    DefaultDumpOfXList => dOut.text = "x: [\n    1,\n    2,\n    3,\n]\n"

C8_Witness == DefaultDumpOfXList /\ Len(dOut.text) = 28

(***************************************************************************)
(* C9: a container not rendered in top-level form is rendered inline       *)
(* exactly when indent < 0, or it is empty, or inline_small_containers is  *)
(* set and it has fewer than 2 items; otherwise multiline, each item after *)
(* 4*(indent+1) spaces and before a comma and a newline, children at       *)
(* indent+1, and a closing indent of 4*indent spaces only when indent > 0. *)
(***************************************************************************)
Spaces(n) == Tok("Indent", Repeat(" ", n))

CsOf(v) == ContainerSettings(IF v.t = "dict" THEN "map" ELSE "list")

RECURSIVE Joined(_, _, _)
\* parts[k..] concatenated, with sep between consecutive parts
Joined(parts, sep, k) ==
    IF k > Len(parts) THEN <<>>
    ELSE (IF k > 1 THEN sep ELSE <<>>) \o parts[k] \o Joined(parts, sep, k + 1)

InlineForm(v, st) ==
    <<CsOf(v).start>>
        \o Joined([k \in 1..Len(v.items) |-> item_func(CsOf(v), v.items[k], st)],
                  <<Comma, Space>>, 1)
        \o <<CsOf(v).end>>

MultilineForm(v, st) ==
    LET deeper == [st EXCEPT !.indent = st.indent + 1] IN
    <<CsOf(v).start, NL>>
        \o Joined([k \in 1..Len(v.items) |->
                        <<Spaces(4 * (st.indent + 1))>>
                            \o item_func(CsOf(v), v.items[k], deeper)
                            \o <<Comma, NL>>],
                  <<>>, 1)
        \o (IF st.indent > 0 THEN <<Spaces(4 * st.indent)>> ELSE <<>>)
        \o <<CsOf(v).end>>

RenderedContainer ==
    /\ dOut.done
    /\ dIn.kind = "_to_tokens"
    /\ dIn.v.t \in {"list", "dict"}
    /\ ~(/\ dIn.v.t = "dict"
         /\ Len(dIn.v.items) > 0
         /\ dIn.top_level_map
         /\ dIn.settings.indent = 0)

C9_InlineOrMultiline ==
    RenderedContainer =>
        dOut.tokens =
            IF \/ dIn.settings.indent < 0
               \/ Len(dIn.v.items) = 0
               \/ (dIn.settings.inline_small_containers /\ Len(dIn.v.items) < 2)
            THEN InlineForm(dIn.v, dIn.settings)
            ELSE MultilineForm(dIn.v, dIn.settings)

C9_Witness ==
    /\ RenderedContainer
    /\ dIn.settings.indent = 1
    /\ Len(dIn.v.items) = 2
    /\ dIn.v.items[2].v.t = "dict"
    /\ dOut.tokens[2] = NL
    /\ dOut.tokens[3].src = "        "
    /\ dOut.tokens[Len(dOut.tokens) - 1].src = "    "

(***************************************************************************)
(* C10: rule 4 of the delete fix-up, for a delete from a multiline         *)
(* container to which rules 1 to 3 do not apply: the removed item's head   *)
(* moves onto the following item when the removed item had a head and the  *)
(* following item's tail does not end in a newline, and the following item *)
(* keeps its head otherwise.                                               *)
(***************************************************************************)
NoNewlineAtEnd(item) ==
    item.tail = <<>> \/ ~EndsWithNL(item.tail[Len(item.tail)])

\* a completed delete from a multiline container, with an item after the
\* removed one, to which rule 3 (empty head, tail ending in a newline, an
\* item before) does not apply
Rule4Case ==
    /\ last.op = "__delitem__"
    /\ last.err = "none"
    /\ LET par == ParentNode(last.pre, last.chain)
           p == Position(last.pre, last.chain)
           removed == par.items[p]
       IN /\ is_multiline(par)
          /\ p < Len(par.items)
          /\ ~(p > 1 /\ removed.head = <<>> /\ ~NoNewlineAtEnd(removed))

\* C10 as claimed: after such a delete the item that follows the removed one
\* has the removed item's head if the removed item had a head and the
\* following item's tail does not end in a newline, and its own head otherwise
C10_Rule4FollowingTail ==
    Rule4Case =>
        LET par == ParentNode(last.pre, last.chain)
            p == Position(last.pre, last.chain)
            now == ParentNode(Root, last.chain).items[p]
        IN IF par.items[p].head # <<>> /\ NoNewlineAtEnd(par.items[p + 1])
           THEN now.head = par.items[p].head
           ELSE now.head = par.items[p + 1].head

====
